---- MODULE Spec2Model ----
(***************************************************************************)
(* A model of xml-pretty's main.rs: one invocation of the command-line     *)
(* tool, from the parsed arguments to process exit, over a two-file        *)
(* filesystem and the three standard streams.                              *)
(*                                                                         *)
(* main() is sequential; it is cut into one action per source step that    *)
(* touches the outside world (open, read, parse, write), so that another   *)
(* process can be interleaved between two of them (SpecExt).               *)
(*                                                                         *)
(* Invocations in which Args::parse_args_default_or_exit does not return   *)
(* (-h, malformed options) never reach the code below line 57 and are not  *)
(* part of the model.                                                      *)
(*                                                                         *)
(* xmlem's Document (parse, render) is outside this repository.  A text    *)
(* is modelled by the document it denotes, by whether its layout is the    *)
(* rendering under some configuration, and by the number of newlines that  *)
(* follow the markup.  Parsing keeps the document only; rendering is a     *)
(* function of the document and the configuration.                         *)
(***************************************************************************)
EXTENDS Integers, Sequences, FiniteSets, TLC

\* ---------------------------------------------------------------- bounds
MaxIndent == 3
MaxDocs == 2
MaxExtWrites == 1

\* ------------------------------------------------------- program constants
DefaultIndent == 2
DefaultEndPad == 1
DefaultMaxLineLength == 120

\* --------------------------------------------------------------- options
\* Option<T> is the empty set (None) or a singleton (Some(x)).
None == {}

Some(x) == {x}

UnwrapOr(opt, default) == IF opt = {} THEN default ELSE CHOOSE x \in opt : TRUE

Unwrap(opt) == CHOOSE x \in opt : TRUE

\* ------------------------------------------------------------ filesystem
InXml == "in.xml"

OutXml == "out.xml"

Paths == {InXml, OutXml}

STDOUT == "<stdout>"

\* ------------------------------------------------- display::Config values
ConfigOf(indent, end_pad, max_line_length, uses_hex_entities, indent_text_nodes) ==
    [ indent            |-> UnwrapOr(indent, DefaultIndent),
      end_pad           |-> UnwrapOr(end_pad, DefaultEndPad),
      max_line_length   |-> UnwrapOr(max_line_length, DefaultMaxLineLength),
      entity_mode       |-> IF uses_hex_entities THEN "Hex" ELSE "Standard",
      indent_text_nodes |-> indent_text_nodes ]

DefaultConfig == ConfigOf(None, None, None, FALSE, TRUE)

\* ----------------------------------------------------------------- texts
\* kind: "xml" (well-formed), "bad" (malformed markup), "nonutf8" (bytes that
\* are no UTF-8 string), "partial" (a proper prefix of a rendering, left by an
\* interrupted write), "missing" (no such file), "tty" (no data: a terminal).
Plain(kind) == [kind |-> kind, doc |-> 0, canon |-> FALSE, cfg |-> DefaultConfig, nl |-> 0]

Messy(d) == [kind |-> "xml", doc |-> d, canon |-> FALSE, cfg |-> DefaultConfig, nl |-> 0]

Bad == Plain("bad")

NonUtf8 == Plain("nonutf8")

Partial == Plain("partial")

Missing == Plain("missing")

Tty == Plain("tty")

\* Document::from_str / Document::from_file: Ok(document) or Err.
ParseOk(text) == text.kind = "xml"

Parse(text) == text.doc

\* String validity for read_to_string
IsUtf8(text) == text.kind \in {"xml", "bad", "partial"}

\* format!("{}\n", s) as println! emits it
WithNewline(text) == [text EXCEPT !.nl = @ + 1]

prettify(doc, indent, end_pad, max_line_length, uses_hex_entities, indent_text_nodes) ==
    [ kind  |-> "xml",
      doc   |-> doc,
      canon |-> TRUE,
      cfg   |-> ConfigOf(indent, end_pad, max_line_length, uses_hex_entities, indent_text_nodes),
      nl    |-> 1 ]

\* ------------------------------------------------------------ input sets
Docs == 1..MaxDocs

IndentArgs == {None} \cup {Some(n) : n \in 2..MaxIndent}

EndPadArgs == {None, Some(0)}

MaxLineLengthArgs == {None}

InitTexts == {Messy(1), prettify(1, None, None, None, FALSE, TRUE), Bad, NonUtf8}

ExtTexts == {Messy(d) : d \in Docs}

ArgsSet ==
    [ xml_document_path : {None, Some(InXml)},
      output_path       : {None} \cup {Some(p) : p \in Paths},
      is_replace        : BOOLEAN,
      lint_mode         : BOOLEAN,
      indent            : IndentArgs,
      end_pad           : EndPadArgs,
      max_line_length   : MaxLineLengthArgs,
      uses_hex_entities : BOOLEAN,
      is_no_text_indent : BOOLEAN ]

\* ----------------------------------------------------------------- state
VARIABLES
    args,         \* the parsed Args of the running invocation
    stdin,        \* what standard input is attached to: Tty or piped data
    fs,           \* path -> contents
    fs0,          \* the filesystem when the invocation started
    pc,           \* position in main
    input_path,   \* main's local, Option<PathBuf>
    output_path,  \* main's local, Option<PathBuf>
    file,         \* prettify_file's open handle, Option<path>
    original,     \* contents / buffer: the retained raw text
    parsedFrom,   \* the text the Document was parsed from
    formatted,    \* the rendered text
    stdout,       \* what the process emitted on standard output
    stderr,       \* diagnostics on the error stream
    exit,         \* "running", "ok" (status 0) or "fail" (non-zero)
    io,           \* which I/O the invocation has performed
    run,          \* 1: first invocation, 2: the invocation that follows it
    prev,         \* how the first invocation ended and what it delivered
    extWrites     \* writes by other processes so far

vars == << args, stdin, fs, fs0, pc, input_path, output_path, file, original,
           parsedFrom, formatted, stdout, stderr, exit, io, run, prev, extWrites >>

NoText == Plain("none")

NoIo == [ stdinRead |-> FALSE, opened |-> {}, read |-> {}, parsed |-> FALSE, writes |-> {} ]

NoPrev == [ kind |-> "none", dest |-> "none", text |-> NoText, exit |-> "none", stderr |-> << >> ]

Diag(msg, subject) == [msg |-> msg, subject |-> subject]

Init ==
    /\ args \in ArgsSet
    /\ stdin \in {Tty} \cup InitTexts
    /\ fs \in [Paths -> InitTexts \cup {Missing}]
    /\ fs[OutXml] \in {Missing, Messy(1)}
    /\ fs0 = fs
    /\ pc = "select_input"
    /\ input_path = None
    /\ output_path = None
    /\ file = None
    /\ original = NoText
    /\ parsedFrom = NoText
    /\ formatted = NoText
    /\ stdout = << >>
    /\ stderr = << >>
    /\ exit = "running"
    /\ io = NoIo
    /\ run = 1
    /\ prev = NoPrev
    /\ extWrites = 0


\* --------------------------------------------------------------- helpers
Finish(code, diags) ==
    /\ pc' = "done"
    /\ exit' = code
    /\ stderr' = stderr \o diags

NoDocumentInverted(path, input) == path = None /\ input # Tty

\* main, line 59-61: no positional path and an interactive standard input
NoDocumentProvided(path, input) == path = None /\ input = Tty

CannotReplaceUnchecked(is_replace, path) == FALSE

\* main, line 69-75: --replace without an input file
CannotReplace(is_replace, path) == is_replace /\ path = None

OutputPathOutputFirst(is_replace, path, out) ==
    IF out # None THEN out ELSE IF is_replace THEN path ELSE None

\* main, line 69-78: the value of the local output_path
OutputPathOf(is_replace, path, out) == IF is_replace THEN path ELSE out

LintModeIgnored(a) == FALSE

\* main, line 104
LintMode(a) == a.lint_mode

LintPassesModuloNewlines(f, o) == [f EXCEPT !.nl = 0] = [o EXCEPT !.nl = 0]

\* main, line 105: formatted == original
LintPasses(f, o) == f = o

\* main, line 110-114: how the lint diagnostic names the input
LintSubject(path) == IF path # None THEN Unwrap(path) ELSE "from stdin"

StdoutTextBare(f) == f

\* main, line 123: println!("{}", formatted)
StdoutText(f) == WithNewline(f)

\* main, line 120: the bytes handed to fs::write
FileText(f) == f

ParseAndPrettify(text) ==
    prettify(Parse(text), args.indent, args.end_pad, args.max_line_length,
             args.uses_hex_entities, ~args.is_no_text_indent)

\* --------------------------------------------------------------- actions
\* main, line 59-67
SelectInput ==
    /\ pc = "select_input"
    /\ IF NoDocumentProvided(args.xml_document_path, stdin)
       THEN /\ Finish("ok", << Diag("ERROR: No XML document provided.", ""),
                               Diag("Run with -h for usage information.", "") >>)
            /\ UNCHANGED input_path
       ELSE /\ input_path' = args.xml_document_path
            /\ pc' = "resolve_output"
            /\ UNCHANGED << exit, stderr >>
    /\ UNCHANGED << args, stdin, fs, fs0, output_path, file, original, parsedFrom,
                    formatted, stdout, io, run, prev, extWrites >>

\* main, line 69-80
ResolveOutput ==
    /\ pc = "resolve_output"
    /\ IF CannotReplace(args.is_replace, input_path)
       THEN /\ Finish("ok", << Diag("ERROR: cannot replace 'file' when provided stdin data.", "") >>)
            /\ UNCHANGED output_path
       ELSE /\ output_path' = OutputPathOf(args.is_replace, input_path, args.output_path)
            /\ pc' = IF input_path # None THEN "open" ELSE "read_stdin"
            /\ UNCHANGED << exit, stderr >>
    /\ UNCHANGED << args, stdin, fs, fs0, input_path, file, original, parsedFrom,
                    formatted, stdout, io, run, prev, extWrites >>

PrettifyFileError == << Diag("Failed to prettify", Unwrap(input_path)) >>

\* prettify_file, line 137: File::open(path)?
OpenFile ==
    /\ pc = "open"
    /\ LET path == Unwrap(input_path) IN
       IF fs[path] = Missing
       THEN /\ Finish("fail", PrettifyFileError)
            /\ UNCHANGED << file, io >>
       ELSE /\ file' = Some(path)
            /\ io' = [io EXCEPT !.opened = @ \cup {path}]
            /\ pc' = "read"
            /\ UNCHANGED << exit, stderr >>
    /\ UNCHANGED << args, stdin, fs, fs0, input_path, output_path, original, parsedFrom,
                    formatted, stdout, run, prev, extWrites >>

\* prettify_file, line 138-139: std::fs::read_to_string(path), a second open by name
ReadToString ==
    /\ pc = "read"
    /\ LET path == Unwrap(input_path) IN
       IF ~IsUtf8(fs[path])
       THEN /\ Finish("fail", PrettifyFileError)
            /\ UNCHANGED << original, io >>
       ELSE /\ original' = fs[path]
            /\ io' = [io EXCEPT !.read = @ \cup {path}]
            /\ pc' = "from_file"
            /\ UNCHANGED << exit, stderr >>
    /\ UNCHANGED << args, stdin, fs, fs0, input_path, output_path, file, parsedFrom,
                    formatted, stdout, run, prev, extWrites >>

\* prettify_file, line 140-151: Document::from_file(file)? reads through the
\* handle opened at line 137, then prettify
FromFile ==
    /\ pc = "from_file"
    /\ LET text == fs[Unwrap(file)] IN
       /\ io' = [io EXCEPT !.parsed = TRUE]
       /\ IF ~ParseOk(text)
          THEN /\ Finish("fail", PrettifyFileError)
               /\ UNCHANGED << parsedFrom, formatted >>
          ELSE /\ parsedFrom' = text
               /\ formatted' = ParseAndPrettify(text)
               /\ pc' = "dispatch"
               /\ UNCHANGED << exit, stderr >>
    /\ UNCHANGED << args, stdin, fs, fs0, input_path, output_path, file, original,
                    stdout, run, prev, extWrites >>

PrettifyStdinError == << Diag("Failed to prettify from stdin", "") >>

\* prettify_stdin, line 154-178
PrettifyStdin ==
    /\ pc = "read_stdin"
    /\ IF ~IsUtf8(stdin)
       THEN /\ io' = [io EXCEPT !.stdinRead = TRUE]
            /\ Finish("fail", PrettifyStdinError)
            /\ UNCHANGED << original, parsedFrom, formatted >>
       ELSE IF ~ParseOk(stdin)
       THEN /\ io' = [io EXCEPT !.stdinRead = TRUE, !.parsed = TRUE]
            /\ Finish("fail", PrettifyStdinError)
            /\ UNCHANGED << original, parsedFrom, formatted >>
       ELSE /\ io' = [io EXCEPT !.stdinRead = TRUE, !.parsed = TRUE]
            /\ original' = stdin
            /\ parsedFrom' = stdin
            /\ formatted' = ParseAndPrettify(stdin)
            /\ pc' = "dispatch"
            /\ UNCHANGED << exit, stderr >>
    /\ UNCHANGED << args, stdin, fs, fs0, input_path, output_path, file,
                    stdout, run, prev, extWrites >>

\* main, line 104-117
Lint ==
    /\ pc = "dispatch"
    /\ LintMode(args)
    /\ IF LintPasses(formatted, original)
       THEN Finish("ok", << >>)
       ELSE Finish("fail", << Diag("xml-pretty --lint failed for document",
                                   LintSubject(input_path)) >>)
    /\ UNCHANGED << args, stdin, fs, fs0, input_path, output_path, file, original,
                    parsedFrom, formatted, stdout, io, run, prev, extWrites >>

\* main, line 119-121: std::fs::write(&path, formatted) creates or truncates the
\* file, then writes; it can fail before the file is touched or after it was
\* truncated.
WriteFile ==
    /\ pc = "dispatch"
    /\ ~LintMode(args)
    /\ output_path # None
    /\ LET path == Unwrap(output_path) IN
       /\ io' = [io EXCEPT !.writes = @ \cup {path}]
       /\ \E outcome \in {"ok", "fail_open", "fail_write"} :
            CASE outcome = "ok" ->
                   /\ fs' = [fs EXCEPT ![path] = FileText(formatted)]
                   /\ Finish("ok", << >>)
              [] outcome = "fail_open" ->
                   /\ fs' = fs
                   /\ Finish("fail", << Diag("Failed to write to", path) >>)
              [] outcome = "fail_write" ->
                   /\ fs' = [fs EXCEPT ![path] = Partial]
                   /\ Finish("fail", << Diag("Failed to write to", path) >>)
    /\ UNCHANGED << args, stdin, fs0, input_path, output_path, file, original,
                    parsedFrom, formatted, stdout, run, prev, extWrites >>

\* main, line 122-126: println! panics when standard output cannot be written
PrintStdout ==
    /\ pc = "dispatch"
    /\ ~LintMode(args)
    /\ output_path = None
    /\ io' = [io EXCEPT !.writes = @ \cup {STDOUT}]
    /\ \E outcome \in {"ok", "fail_none", "fail_partial"} :
         CASE outcome = "ok" ->
                /\ stdout' = Append(stdout, StdoutText(formatted))
                /\ Finish("ok", << >>)
           [] outcome = "fail_none" ->
                /\ stdout' = stdout
                /\ Finish("fail", << Diag("failed printing to stdout", "") >>)
           [] outcome = "fail_partial" ->
                /\ stdout' = Append(stdout, Partial)
                /\ Finish("fail", << Diag("failed printing to stdout", "") >>)
    /\ UNCHANGED << args, stdin, fs, fs0, input_path, output_path, file, original,
                    parsedFrom, formatted, run, prev, extWrites >>

\* ----------------------------------------------------------- environment
Restart ==
    /\ fs0' = fs
    /\ pc' = "select_input"
    /\ input_path' = None
    /\ output_path' = None
    /\ file' = None
    /\ original' = NoText
    /\ parsedFrom' = NoText
    /\ formatted' = NoText
    /\ stdout' = << >>
    /\ stderr' = << >>
    /\ exit' = "running"
    /\ io' = NoIo
    /\ run' = 2
    /\ UNCHANGED << fs, extWrites >>

\* The user lints, with the same formatting options, what a successful format
\* run delivered: the file it wrote, or its standard output through a pipe.
RelintDelivered ==
    /\ pc = "done" /\ run = 1 /\ exit = "ok"
    /\ ~args.lint_mode
    /\ io.writes # {}
    /\ LET dest == CHOOSE d \in io.writes : TRUE
           text == IF dest = STDOUT THEN stdout[1] ELSE fs[dest]
       IN /\ prev' = [kind |-> "delivered", dest |-> dest, text |-> text,
                      exit |-> exit, stderr |-> stderr]
          /\ stdin' = IF dest = STDOUT THEN text ELSE Tty
          /\ \E r \in BOOLEAN :
               args' = [args EXCEPT !.lint_mode = TRUE,
                                    !.xml_document_path =
                                        IF dest = STDOUT THEN None ELSE Some(dest),
                                    !.is_replace = r,
                                    !.output_path = None]
    /\ Restart

\* The user repeats a lint run on the same input with the same formatting
\* options, changing only --replace and --output-path.
RerunLint ==
    /\ pc = "done" /\ run = 1
    /\ args.lint_mode
    /\ prev' = [kind |-> "lint", dest |-> "none", text |-> NoText,
                exit |-> exit, stderr |-> stderr]
    /\ \E r \in BOOLEAN, o \in {None} \cup {Some(p) : p \in Paths} :
         /\ (r # args.is_replace \/ o # args.output_path)
         /\ args' = [args EXCEPT !.is_replace = r, !.output_path = o]
    /\ stdin' = stdin
    /\ Restart

\* Another process overwrites a file in place while the tool runs.
ExternalWrite ==
    /\ pc # "done"
    /\ extWrites < MaxExtWrites
    /\ \E p \in Paths, t \in ExtTexts :
         /\ fs[p] # t
         /\ fs' = [fs EXCEPT ![p] = t]
    /\ extWrites' = extWrites + 1
    /\ UNCHANGED << args, stdin, fs0, pc, input_path, output_path, file, original,
                    parsedFrom, formatted, stdout, stderr, exit, io, run, prev >>

\* --------------------------------------------------------- specifications
Next ==
    \/ SelectInput
    \/ ResolveOutput
    \/ OpenFile
    \/ ReadToString
    \/ FromFile
    \/ PrettifyStdin
    \/ Lint
    \/ WriteFile
    \/ PrintStdout
    \/ RelintDelivered
    \/ RerunLint

\* one process at a time (spec section 5)
Spec == Init /\ [][Next]_vars

NextExt ==
    \/ SelectInput
    \/ ResolveOutput
    \/ OpenFile
    \/ ReadToString
    \/ FromFile
    \/ PrettifyStdin
    \/ Lint
    \/ WriteFile
    \/ PrintStdout
    \/ ExternalWrite

\* a single invocation with another process writing the files meanwhile
SpecExt == Init /\ [][NextExt]_vars


\* ------------------------------------------------------------ properties
Done == pc = "done"

\* the invocation read and parsed its input successfully
Acquired == formatted # NoText

\* the input named on the command line, as the diagnostics name it
InputName ==
    IF args.xml_document_path # None THEN Unwrap(args.xml_document_path) ELSE "from stdin"

\* the destination the options resolve to
Resolved ==
    IF args.is_replace THEN Unwrap(args.xml_document_path)
    ELSE IF args.output_path # None THEN Unwrap(args.output_path)
    ELSE STDOUT

NothingWritten == io.writes = {} /\ fs = fs0 /\ stdout = << >>

NoInputTouched == ~io.stdinRead /\ io.opened = {} /\ io.read = {} /\ ~io.parsed

LintFailure == Diag("xml-pretty --lint failed for document", InputName)

\* C1: with --lint set, whatever --replace and --output-path are, no file is
\* written and nothing is emitted on standard output, at any point of the run.
C1_LintNeverWrites == args.lint_mode => NothingWritten

C1_Witness ==
    /\ Done /\ args.lint_mode /\ exit = "fail" /\ Acquired
    /\ args.is_replace /\ args.output_path = Some(OutXml)

\* C2: a lint run that read and parsed its input ends with success exactly
\* when the rendered text equals the raw text, and otherwise fails with a
\* diagnostic that names the input file, or says "from stdin".
C2_LintVerdict ==
    (Done /\ args.lint_mode /\ Acquired) =>
        /\ exit = "ok" <=> formatted = original
        /\ exit = "ok" => stderr = << >>
        /\ exit # "ok" => exit = "fail" /\ stderr = << LintFailure >>

C2_Witness ==
    /\ Done /\ args.lint_mode /\ Acquired /\ exit = "fail"
    /\ args.xml_document_path = None /\ original.canon /\ original.nl = 1

\* C3: a format run that read and parsed its input performs exactly one write,
\* on the resolved destination (the input file under --replace, else the
\* --output-path file, else standard output); every other target is left as
\* it was, and on success the destination holds the rendering.
C3_OneResolvedDestination ==
    (Done /\ ~args.lint_mode /\ Acquired) =>
        /\ io.writes = {Resolved}
        /\ \A p \in Paths \ {Resolved} : fs[p] = fs0[p]
        /\ Resolved # STDOUT => stdout = << >>
        /\ exit = "ok" /\ Resolved # STDOUT => fs[Resolved] = formatted
        /\ exit = "ok" /\ Resolved = STDOUT => Len(stdout) = 1

C3_Witness ==
    /\ Done /\ ~args.lint_mode /\ Acquired /\ exit = "ok"
    /\ args.is_replace /\ args.output_path = Some(OutXml)
    /\ fs[InXml] = formatted /\ fs[InXml] # fs0[InXml]

\* C4: an invocation that ends in a fatal error has written no output
\* destination.
C4_NoPartialOutput == (Done /\ exit = "fail") => (fs = fs0 /\ stdout = << >>)

\* C5: --replace with piped standard input ends with status 0 and a
\* diagnostic, without reading standard input, parsing or writing.
C5_ReplaceOnStdin ==
    (args.is_replace /\ args.xml_document_path = None /\ stdin # Tty) =>
        /\ NoInputTouched
        /\ NothingWritten
        /\ Done =>
             /\ exit = "ok"
             /\ stderr = << Diag("ERROR: cannot replace 'file' when provided stdin data.", "") >>

C5_Witness ==
    /\ Done /\ args.is_replace /\ args.xml_document_path = None /\ stdin.kind = "xml"
    /\ ~args.lint_mode

\* C6: no positional path and a terminal on standard input: whatever the
\* other flags, the run ends with status 0 after the "no XML document
\* provided" diagnostic, with nothing read, opened, parsed or written.
C6_NoDocument ==
    (args.xml_document_path = None /\ stdin = Tty) =>
        /\ NoInputTouched
        /\ NothingWritten
        /\ Done =>
             /\ exit = "ok"
             /\ Len(stderr) = 2
             /\ stderr[1] = Diag("ERROR: No XML document provided.", "")

C6_Witness ==
    /\ Done /\ run = 1 /\ args.xml_document_path = None /\ stdin = Tty
    /\ args.lint_mode /\ args.is_replace /\ args.output_path # None

\* C7: two lint runs on the same input source and content with the same
\* formatting options, differing only in --replace and --output-path, end
\* with the same exit status and diagnostic.
C7_LintIndependentOfDestination ==
    (Done /\ run = 2 /\ prev.kind = "lint") =>
        (exit = prev.exit /\ stderr = prev.stderr)

\* C8: linting, with the same configuration, what a format run delivered
\* (to a file, to the replaced input, to standard output) never reports a
\* mismatch.
C8_LintOfFormatPasses ==
    (Done /\ run = 2 /\ prev.kind = "delivered") => stderr # << LintFailure >>

\* C9: after a successful format run a file destination holds exactly the
\* rendering, and standard output received the rendering and one newline.
C9_DeliveredContent ==
    (Done /\ ~args.lint_mode /\ Acquired /\ exit = "ok") =>
        IF Resolved = STDOUT
        THEN /\ stdout = << WithNewline(ParseAndPrettify(original)) >>
             /\ fs = fs0
        ELSE /\ fs[Resolved] = ParseAndPrettify(original)
             /\ stdout = << >>

C9_Witness ==
    /\ Done /\ ~args.lint_mode /\ Acquired /\ exit = "ok"
    /\ Resolved = OutXml /\ fs0[OutXml] = Messy(1) /\ fs[OutXml].canon

C9_WitnessStdout ==
    /\ Done /\ ~args.lint_mode /\ Acquired /\ exit = "ok"
    /\ Resolved = STDOUT /\ Len(stdout) = 1

\* C10: for file input the retained original text is the content the
\* document was parsed from, whatever another process writes meanwhile.
C10_OriginalIsParsedContent ==
    (input_path # None /\ Acquired) => parsedFrom = original

\* ------------------------------------------- what holds next to C4, C7, C8, C10
\* An invocation that fails before it writes (read, parse, lint mismatch)
\* leaves every destination untouched.
FailureBeforeWriteLeavesNoTrace ==
    (Done /\ exit = "fail" /\ io.writes = {}) => (fs = fs0 /\ stdout = << >>)

\* The lint outcome does not depend on --replace and --output-path unless
\* the input is piped standard input.
LintIndependentUnlessPiped ==
    (Done /\ run = 2 /\ prev.kind = "lint"
          /\ ~(args.xml_document_path = None /\ stdin # Tty)) =>
        (exit = prev.exit /\ stderr = prev.stderr)

\* Linting what a format run wrote to a file passes.
LintOfWrittenFilePasses ==
    (Done /\ run = 2 /\ prev.kind = "delivered" /\ prev.dest # STDOUT) =>
        (exit = "ok" /\ stderr = << >>)

\* For standard input the original is the text that was parsed.
StdinOriginalIsParsedContent ==
    (input_path = None /\ Acquired) => parsedFrom = original

====
